---- MODULE Spec2Model ----
(***************************************************************************)
(* Model of PROJECT/app.py: the Flask application with the two routes      *)
(* GET / (index) and POST /run-ocr (run_ocr_endpoint), and the OCR invoker *)
(* run_gemini_ocr that wraps the external generate_content capability.     *)
(*                                                                         *)
(* Text is modelled as sequences of tokens.  In an imageBase64 string the  *)
(* token "," is the comma character, "G" stands for the base64 text of one *)
(* complete image (a whole number of 4-character groups, no padding) and   *)
(* "x" for one stray character of the base64 alphabet.  The text returned  *)
(* by the model is a sequence of JSON tokens.  Messages are TLA+ strings.  *)
(***************************************************************************)
EXTENDS Integers, Sequences, FiniteSets, TLC

\* Longest imageBase64 string of a request, in tokens.
MaxLen == 3

Tokens == {",", "G", "x"}

Strings == UNION {[1..n -> Tokens] : n \in 0..MaxLen}

(***************************************************************************)
(* JSON values of the request body.  "absent" is a key the object does not *)
(* have: dict.get returns None for it, as it does for a null value.        *)
(***************************************************************************)
Absent == [t |-> "absent", s |-> <<>>]

Null == [t |-> "null", s |-> <<>>]

Num == [t |-> "num", s |-> <<>>]

Str(s) == [t |-> "str", s |-> s]

ImageValues == {Absent, Null, Num} \cup {Str(s) : s \in Strings}

MimeValues == {Absent, Str(<<>>), Str(<<"image/png">>), Num}

\* kind: "malformed" is a body that is not valid JSON; "null" and "list"
\* are valid JSON that is not an object; "object" is a JSON object.
Bodies ==
    [kind : {"malformed", "null", "list"}, imageBase64 : {Absent}, fileMimeType : {Absent}]
    \cup [kind : {"object"}, imageBase64 : ImageValues, fileMimeType : MimeValues]

\* is_json: the declared content type is a JSON one.
Requests == [is_json : BOOLEAN, body : Bodies]

NoRequest == [is_json |-> FALSE, body |-> [kind |-> "malformed", imageBase64 |-> Absent, fileMimeType |-> Absent]]

(***************************************************************************)
(* Outcomes of a call: a value, or a raised exception (class and str(e)).  *)
(***************************************************************************)
Ok(v) == [ok |-> TRUE, val |-> v, cls |-> "", msg |-> ""]

Raise(c, m) == [ok |-> FALSE, val |-> <<>>, cls |-> c, msg |-> m]

(***************************************************************************)
(* Behaviours of the external capability for one call.                     *)
(***************************************************************************)
APIErrorClasses == {"APIError", "ClientError", "ServerError"}

OtherErrorClasses == {"ConnectError"}

TextTest == <<"{", "\"extractedText\"", ":", "\"Test\"", "}">>

TextHello == <<"{", "\"extractedText\"", ":", "\"Hello\\nWorld\"", "}">>

TextEmptyObject == <<"{", "}">>

TextOtherKey == <<"{", "\"text\"", ":", "\"Test\"", "}">>

TextList == <<"[", "]">>

TextTruncated == <<"{", "\"extractedText\"", ":">>

TextProse == <<"Sorry">>

TextEmpty == <<>>

ModelTexts ==
    {TextTest, TextHello, TextEmptyObject, TextOtherKey, TextList,
     TextTruncated, TextProse, TextEmpty}

NoBehaviour == [kind |-> "unused", cls |-> "", text |-> <<>>]

ModelBehaviours ==
    [kind : {"raise"}, cls : APIErrorClasses \cup OtherErrorClasses, text : {<<>>}]
    \cup [kind : {"text"}, cls : {""}, text : ModelTexts]
    \cup [kind : {"none"}, cls : {""}, text : {<<>>}]

\* Addresses the interpreter may give the BytesIO object of one call.
Addresses == {"0x7f3c1a2b4d60", "0x7f3c1a2b4e00"}

(***************************************************************************)
(* Python and library operations the handlers call.                        *)
(***************************************************************************)

\* Truth value of a JSON value under Python's "not": None and "" are false.
Falsy(v) == v.t \in {"absent", "null"} \/ (v.t = "str" /\ v.s = <<>>)

CommaPositions(s) == {i \in 1..Len(s) : s[i] = ","}

Min(S) == CHOOSE i \in S : \A j \in S : i <= j

Max(S) == CHOOSE i \in S : \A j \in S : i >= j

\* s.rsplit(',', 1): the cut is made at the last comma.
split_last(s) ==
    IF CommaPositions(s) = {} THEN <<s>>
    ELSE <<SubSeq(s, 1, Max(CommaPositions(s)) - 1),
           SubSeq(s, Max(CommaPositions(s)) + 1, Len(s))>>

\* s.partition(',') read as [head, tail]: the tail is '' without a comma.
split_partition(s) ==
    IF CommaPositions(s) = {} THEN <<s, <<>>>>
    ELSE <<SubSeq(s, 1, Min(CommaPositions(s)) - 1),
           SubSeq(s, Min(CommaPositions(s)) + 1, Len(s))>>

\* s.split(',', 1): one cut at most, at the first comma.
split(s) ==
    IF CommaPositions(s) = {} THEN <<s>>
    ELSE <<SubSeq(s, 1, Min(CommaPositions(s)) - 1),
           SubSeq(s, Min(CommaPositions(s)) + 1, Len(s))>>

IsData(c) == c # ","

StrayCount(s) == Cardinality({i \in 1..Len(s) : s[i] = "x"})

\* The bytes a correctly padded text decodes to, in chunks: "IMG" for each
\* image that precedes every stray character, then "junk" for the rest.
DecodedBytes(d) ==
    LET strays == {i \in 1..Len(d) : d[i] = "x"}
        lead == IF strays = {} THEN Len(d) ELSE Min(strays) - 1
    IN  [i \in 1..lead |-> "IMG"] \o (IF strays = {} THEN <<>> ELSE <<"junk">>)

\* base64.b64decode(s) without validation: characters outside the alphabet
\* (the comma) are discarded; the data characters left must fill whole
\* groups of four.  The count the real message quotes is written (n).
b64decode(s) ==
    LET d == SelectSeq(s, IsData)
        r == StrayCount(d) % 4
    IN  IF r = 0 THEN Ok(DecodedBytes(d))
        ELSE IF r = 1
        THEN Raise("Error", "Invalid base64-encoded string: number of data characters (n) cannot be 1 more than a multiple of 4")
        ELSE Raise("Error", "Incorrect padding")

\* Image.open(BytesIO(image_bytes)): the format is identified from the first
\* bytes; on failure the message quotes repr(fp), which holds the address of
\* the BytesIO object of this call.
Image_open(bytes, addr) ==
    IF bytes # <<>> /\ bytes[1] = "IMG" THEN Ok(<<"image">>)
    ELSE Raise("UnidentifiedImageError",
               "cannot identify image file <_io.BytesIO object at " \o addr \o ">")

\* client.models.generate_content(...): the capability answers with a
\* response whose .text is a text or None, or raises.
generate_content(m) ==
    IF m.kind = "raise" THEN Raise(m.cls, "request failed")
    ELSE Ok([none |-> m.kind = "none", toks |-> m.text])

\* The value of a JSON string literal.
StringLiterals == {"\"extractedText\"", "\"text\"", "\"Test\"", "\"Hello\\nWorld\""}

JsonString(lit) ==
    CASE lit = "\"extractedText\"" -> "extractedText"
      [] lit = "\"text\"" -> "text"
      [] lit = "\"Test\"" -> "Test"
      [] lit = "\"Hello\\nWorld\"" -> "Hello\nWorld"

\* json.loads(response.text) on the token sequences the model can return.
json_loads(text) ==
    IF text.none
    THEN Raise("TypeError", "the JSON object must be str, bytes or bytearray, not NoneType")
    ELSE LET t == text.toks IN
         IF t = <<"{", "}">> THEN Ok([t |-> "object", obj |-> [k \in {} |-> ""]])
         ELSE IF Len(t) = 5 /\ t[1] = "{" /\ t[2] \in StringLiterals /\ t[3] = ":"
                 /\ t[4] \in StringLiterals /\ t[5] = "}"
         THEN Ok([t |-> "object", obj |-> [k \in {JsonString(t[2])} |-> JsonString(t[4])]])
         ELSE IF t = <<"[", "]">> THEN Ok([t |-> "list", obj |-> [k \in {} |-> ""]])
         ELSE IF Len(t) = 1 /\ t[1] \in StringLiterals
         THEN Ok([t |-> "str", obj |-> [k \in {} |-> ""]])
         ELSE IF Len(t) >= 3 /\ t[1] = "{" /\ t[2] \in StringLiterals /\ t[3] = ":"
         THEN Raise("JSONDecodeError", "Expecting value: line 1 column 18 (char 17)")
         ELSE Raise("JSONDecodeError", "Expecting value: line 1 column 1 (char 0)")

DefaultText == "No text could be extracted."

\* parsed["extractedText"]: a missing key raises KeyError.
dict_getitem(parsed, key, default) ==
    IF parsed.t # "object"
    THEN Raise("TypeError", "indices must be integers")
    ELSE IF key \in DOMAIN parsed.obj THEN Ok(parsed.obj[key])
    ELSE Raise("KeyError", "'extractedText'")

\* parsed_model_output.get(key, default): only a dict has .get.
dict_get(parsed, key, default) ==
    IF parsed.t # "object"
    THEN Raise("AttributeError", "'" \o parsed.t \o "' object has no attribute 'get'")
    ELSE IF key \in DOMAIN parsed.obj THEN Ok(parsed.obj[key])
    ELSE Ok(default)

(***************************************************************************)
(* State.                                                                  *)
(***************************************************************************)
VARIABLES
    route,        \* route of the request handled last; "none" before any
    request,      \* the POST /run-ocr request handled last
    response,     \* the response the client received for it
    uncaught,     \* class of the exception that left the view function, or ""
    invoked,      \* run_gemini_ocr was called for this request
    base64_data,  \* the payload passed to run_gemini_ocr
    result,       \* the dict run_gemini_ocr returned
    calls,        \* calls of client.models.generate_content for this request
    mock,         \* how the capability behaved for this request
    client,       \* the module-level Gemini client handle
    held          \* a test client's record of one earlier exchange

vars == <<route, request, response, uncaught, invoked, base64_data, result,
          calls, mock, client, held>>

NoResult == [none |-> ""]

NoResponse == [status |-> 0, mimetype |-> "", body |-> [none |-> ""]]

NoHeld == [set |-> FALSE, request |-> NoRequest, mock |-> NoBehaviour,
           result |-> NoResult, response |-> NoResponse]

(***************************************************************************)
(* The OCR invoker.                                                        *)
(***************************************************************************)

\* The except clauses in the other order: Exception catches everything.
except_clauses_swapped(e) ==
    [error |-> "Internal Server Error: " \o e.cls \o ". Details: " \o e.msg]

\* except genai.errors.APIError (and its subclasses), then except Exception.
except_clauses(e) ==
    IF e.cls \in APIErrorClasses
    THEN [error |-> "API Error: " \o e.cls \o ". Check your API key or usage limits."]
    ELSE [error |-> "Internal Server Error: " \o e.cls \o ". Details: " \o e.msg]

\* A call that is made again after it raised.
call_capability_retry(m) ==
    [out |-> generate_content(m), calls |-> IF generate_content(m).ok THEN 1 ELSE 2]

\* The one call of client.models.generate_content.
call_capability(m) == [out |-> generate_content(m), calls |-> 1]

\* The whole try block with its handlers.  m is the behaviour of the
\* capability if it is called, addr the address of this call's BytesIO.
run_gemini_ocr(base64_image_data, mime_type, m, addr) ==
    LET image_bytes == b64decode(base64_image_data)
        image == IF image_bytes.ok THEN Image_open(image_bytes.val, addr)
                 ELSE image_bytes
        call == IF image.ok THEN call_capability(m)
                ELSE [out |-> image, calls |-> 0]
        parsed_model_output == IF call.out.ok THEN json_loads(call.out.val)
                               ELSE call.out
        extracted_text ==
            IF parsed_model_output.ok
            THEN dict_get(parsed_model_output.val, "extractedText", DefaultText)
            ELSE parsed_model_output
    IN  [result |-> IF extracted_text.ok
                    THEN [extractedText |-> extracted_text.val]
                    ELSE except_clauses(extracted_text),
         calls |-> call.calls,
         mock |-> IF image.ok THEN m ELSE NoBehaviour]

(***************************************************************************)
(* The request handler.                                                    *)
(***************************************************************************)
jsonify(obj, status) ==
    [status |-> status, mimetype |-> "application/json", body |-> obj]

\* The page Flask answers with when an exception leaves the view function.
ErrorPage(status, name) ==
    [status |-> status, mimetype |-> "text/html", body |-> [html |-> name]]

Reject(resp) ==
    [delegate |-> FALSE, response |-> resp, uncaught |-> "", base64_data |-> <<>>]

Escape(cls, resp) ==
    [delegate |-> FALSE, response |-> resp, uncaught |-> cls, base64_data |-> <<>>]

Delegate(payload) ==
    [delegate |-> TRUE, response |-> NoResponse, uncaught |-> "", base64_data |-> payload]

\* "and" written for "or".
missing_fields_both(base64_data_with_prefix, mime_type) ==
    Falsy(base64_data_with_prefix) /\ Falsy(mime_type)

\* not base64_data_with_prefix or not mime_type
missing_fields(base64_data_with_prefix, mime_type) ==
    Falsy(base64_data_with_prefix) \/ Falsy(mime_type)

\* The handler up to the call of run_gemini_ocr.  request.json raises
\* BadRequest on a body that does not parse; .get on a value that is no
\* dict and .split on a value that is no str raise AttributeError, which
\* no except clause of the handler catches.
validate(req) ==
    IF ~req.is_json
    THEN Reject(jsonify([error |-> "Request must be JSON"], 400))
    ELSE IF req.body.kind = "malformed"
    THEN Escape("BadRequest", ErrorPage(400, "Bad Request"))
    ELSE IF req.body.kind # "object"
    THEN Escape("AttributeError", ErrorPage(500, "Internal Server Error"))
    ELSE IF missing_fields(req.body.imageBase64, req.body.fileMimeType)
    THEN Reject(jsonify([error |-> "Missing image data or MIME type in request."], 400))
    ELSE IF req.body.imageBase64.t # "str"
    THEN Escape("AttributeError", ErrorPage(500, "Internal Server Error"))
    ELSE IF Len(split(req.body.imageBase64.s)) < 2
    THEN Reject(jsonify([error |-> "Invalid base64 format received from client."], 400))
    ELSE Delegate(split(req.body.imageBase64.s)[2])

\* The status code left out of the error return.
respond_always_200(res) == jsonify(res, 200)

\* if "error" in result: return jsonify(result), 500; return jsonify(result)
respond(res) ==
    IF "error" \in DOMAIN res THEN jsonify(res, 500) ELSE jsonify(res, 200)

\* One POST /run-ocr exchange, the capability behaving as one of Ms.
Serve(req, Ms) ==
    LET v == validate(req) IN
    /\ route' = "/run-ocr"
    /\ request' = req
    /\ invoked' = v.delegate
    /\ base64_data' = v.base64_data
    /\ uncaught' = v.uncaught
    /\ IF v.delegate
       THEN \E r \in {run_gemini_ocr(v.base64_data, req.body.fileMimeType, m, addr) :
                       m \in Ms, addr \in Addresses} :
              /\ result' = r.result
              /\ calls' = r.calls
              /\ mock' = r.mock
              /\ response' = respond(r.result)
       ELSE /\ result' = NoResult
            /\ calls' = 0
            /\ mock' = NoBehaviour
            /\ response' = v.response

run_ocr_endpoint ==
    /\ route = "none"
    /\ \E req \in Requests : Serve(req, ModelBehaviours)
    /\ UNCHANGED <<client, held>>

\* GET /: send_from_directory('.', 'index.html'); NotFound without the file.
index ==
    /\ route = "none"
    /\ route' = "/"
    /\ request' = NoRequest
    /\ invoked' = FALSE
    /\ base64_data' = <<>>
    /\ result' = NoResult
    /\ calls' = 0
    /\ mock' = NoBehaviour
    /\ \E present \in BOOLEAN :
         /\ response' = IF present THEN [status |-> 200, mimetype |-> "text/html",
                                         body |-> [html |-> "index.html"]]
                        ELSE ErrorPage(404, "Not Found")
         /\ uncaught' = IF present THEN "" ELSE "NotFound"
    /\ UNCHANGED <<client, held>>

\* The view function has returned and the response is sent: the locals of
\* the call are gone, and only the module-level state is left.
teardown_request ==
    /\ route # "none"
    /\ route' = "none"
    /\ request' = NoRequest
    /\ response' = NoResponse
    /\ uncaught' = ""
    /\ invoked' = FALSE
    /\ base64_data' = <<>>
    /\ result' = NoResult
    /\ calls' = 0
    /\ mock' = NoBehaviour
    /\ UNCHANGED <<client, held>>

\* The state after the module is loaded: the API key is set and
\* genai.Client() succeeded; no request is being handled.
Init ==
    /\ route = "none"
    /\ request = NoRequest
    /\ response = NoResponse
    /\ uncaught = ""
    /\ invoked = FALSE
    /\ base64_data = <<>>
    /\ result = NoResult
    /\ calls = 0
    /\ mock = NoBehaviour
    /\ client = "genai.Client"
    /\ held = NoHeld

Next == run_ocr_endpoint \/ index \/ teardown_request

Spec == Init /\ [][Next]_vars

(***************************************************************************)
(* A test client that submits one request a second time: it records one    *)
(* exchange, lets other requests pass, and posts the recorded request      *)
(* again with the capability mocked to behave as it did the first time.    *)
(***************************************************************************)
Remember ==
    /\ route = "/run-ocr"
    /\ ~held.set
    /\ held' = [set |-> TRUE, request |-> request, mock |-> mock,
                result |-> result, response |-> response]
    /\ UNCHANGED <<route, request, response, uncaught, invoked, base64_data,
                   result, calls, mock, client>>

Resubmit ==
    /\ route = "none"
    /\ held.set
    /\ Serve(held.request,
             IF held.mock = NoBehaviour THEN ModelBehaviours ELSE {held.mock})
    /\ UNCHANGED <<client, held>>

NextTwice == Next \/ Remember \/ Resubmit

SpecTwice == Init /\ [][NextTwice]_vars

(***************************************************************************)
(* Properties.                                                             *)
(***************************************************************************)
Posted == route = "/run-ocr"

StartsWith(s, p) == Len(s) >= Len(p) /\ SubSeq(s, 1, Len(p)) = p

Contains(s, p) == \E i \in 1..(Len(s) - Len(p) + 1) : SubSeq(s, i, i + Len(p) - 1) = p

NotProvided(v) == v \in {Absent, Null, Str(<<>>)}

NoComma(s) == \A i \in 1..Len(s) : s[i] # ","

JsonResponse(status, obj) ==
    response = [status |-> status, mimetype |-> "application/json", body |-> obj]

\* C1: every POST /run-ocr request ends with 200 and an extractedText body
\* or with a 4xx/5xx whose body is a JSON object with an error key, and no
\* exception leaves run_ocr_endpoint.
C1_AlwaysJsonOutcome ==
    Posted =>
        /\ uncaught = ""
        /\ response.mimetype = "application/json"
        /\ \/ response.status = 200 /\ "extractedText" \in DOMAIN response.body
           \/ response.status \in 400..599 /\ "error" \in DOMAIN response.body

\* C2: a POST /run-ocr request whose body is not valid JSON, whatever its
\* declared content type, gets 400 {"error": "Request must be JSON"} and
\* run_gemini_ocr is not called.
C2_InvalidJsonBodyRejected ==
    (Posted /\ request.body.kind = "malformed") =>
        /\ JsonResponse(400, [error |-> "Request must be JSON"])
        /\ ~invoked

C5_PayloadAfterFirstComma ==
    invoked =>
        LET s == request.body.imageBase64.s IN
        \E i \in 1..Len(s) :
            /\ s[i] = ","
            /\ \A j \in 1..(i - 1) : s[j] # ","
            /\ Len(base64_data) = Len(s) - i
            /\ \A k \in 1..(Len(s) - i) : base64_data[k] = s[i + k]

\* Witness of C5: a second comma is kept in the payload.
C5_Witness ==
    /\ invoked
    /\ request.body.imageBase64 = Str(<<"x", ",", ",">>)
    /\ base64_data = <<",">>

\* C6: the result of run_gemini_ocr has exactly the key extractedText or
\* exactly the key error, and the response is 500 with the result as body
\* for the latter and 200 with the result as body for the former.
C6_ResultIsOneVariant ==
    invoked =>
        /\ DOMAIN result \in {{"extractedText"}, {"error"}}
        /\ DOMAIN result = {"error"} => JsonResponse(500, [error |-> result.error])
        /\ DOMAIN result = {"extractedText"}
             => JsonResponse(200, [extractedText |-> result.extractedText])

\* Witness of C6: run_gemini_ocr returned a Failure.
C6_Witness ==
    /\ invoked
    /\ DOMAIN result = {"error"}
    /\ response.status = 500

\* C7: model text that is a JSON object without extractedText gives 200 with
\* "No text could be extracted."; with the key, 200 with its value; text
\* that is not JSON gives 500 with an "Internal Server Error: " message.
C7_ModelOutputHandling ==
    (calls = 1 /\ mock.kind = "text") =>
        /\ mock.text \in {TextEmptyObject, TextOtherKey}
             => JsonResponse(200, [extractedText |-> "No text could be extracted."])
        /\ mock.text = TextTest => JsonResponse(200, [extractedText |-> "Test"])
        /\ mock.text = TextHello => JsonResponse(200, [extractedText |-> "Hello\nWorld"])
        /\ mock.text \in {TextTruncated, TextProse, TextEmpty}
             => /\ response.status = 500
                /\ response.mimetype = "application/json"
                /\ DOMAIN response.body = {"error"}
                /\ StartsWith(response.body.error, "Internal Server Error: ")

\* Witness of C7: the model returned an object without extractedText.
C7_Witness ==
    /\ calls = 1
    /\ mock.text = TextOtherKey
    /\ response.status = 200

\* C8: an API-level error of the capability gives 500 with "API Error:
\* <class>. Check your API key or usage limits."; every other failure inside
\* run_gemini_ocr gives 500 with a message that starts "Internal Server
\* Error:" and does not contain "API Error".
C8_ErrorMessageByCause ==
    /\ (calls = 1 /\ mock.kind = "raise" /\ mock.cls \in {"APIError", "ClientError", "ServerError"})
         => JsonResponse(500, [error |-> "API Error: " \o mock.cls
                                          \o ". Check your API key or usage limits."])
    /\ (/\ invoked
        /\ "error" \in DOMAIN result
        /\ ~(mock.kind = "raise" /\ mock.cls \in {"APIError", "ClientError", "ServerError"}))
         => /\ JsonResponse(500, [error |-> result.error])
            /\ StartsWith(result.error, "Internal Server Error:")
            /\ ~Contains(result.error, "API Error")

\* Witness of C8: the capability raised an API-level error.
C8_Witness ==
    /\ calls = 1
    /\ mock.kind = "raise"
    /\ mock.cls = "ClientError"
    /\ response.status = 500

\* C9: the same request with the same behaviour of the capability gives the
\* same OcrResult and the same response both times, and handling requests
\* leaves the state a later request reads as it was.
C9_SameExchangeTwice ==
    /\ client = "genai.Client"
    /\ (held.set /\ Posted /\ request = held.request /\ mock = held.mock)
         => (result = held.result /\ response = held.response)

\* C10: generate_content is called zero times for a request that fails
\* validation, base64 decoding or image parsing, once otherwise, and never
\* twice, also after it raised.
C10_OneCapabilityCall ==
    Posted =>
        /\ calls \in {0, 1}
        /\ ~invoked => calls = 0
        /\ response.status = 400 => calls = 0
        /\ invoked =>
             (calls = 1 <=>
                /\ b64decode(base64_data).ok
                /\ \A a \in Addresses : Image_open(b64decode(base64_data).val, a).ok)

\* Witness of C10: the capability raised and was called once.
C10_Witness ==
    /\ Posted
    /\ calls = 1
    /\ mock.kind = "raise"

====
